---- MODULE Spec2Model ----
(***************************************************************************)
(* Model of exporter/exporter.py: the MLflow -> Prometheus gauge bridge    *)
(* with optional write-through to PostgreSQL.                              *)
(*                                                                         *)
(* main() loops forever: collect_all_metrics(client); sleep.  One cycle of *)
(* collect_all_metrics lists the experiments, and for each experiment      *)
(* upserts its row, searches its runs, and for each run upserts the run    *)
(* row, sets one gauge per numeric metric, inserts one metric row per      *)
(* numeric metric and one param row per param.                             *)
(*                                                                         *)
(* Python values: an optional value is a sequence of length at most one    *)
(* (None is <<>>, x is <<x>>); a dict is the sequence of its items in      *)
(* iteration order; a float is its value in tenths.                        *)
(***************************************************************************)
EXTENDS Integers, Sequences, FiniteSets, TLC

VARIABLES
    DATABASE_URL,  \* line 70: os.environ.get("DATABASE_URL"), fixed for the process
    client,        \* line 226: which helpers the MlflowClient object exposes
    mlflow,        \* the tracking service: what list/search calls return
    pc,            \* control point of main() / collect_all_metrics()
    experiments,   \* line 112: experiments the for loop has still to visit
    exp,           \* lines 113-131: exp_id, exp_name, exp_db_id of the current experiment
    runs,          \* line 145: runs the inner for loop has still to visit
    seen_labels,   \* line 110
    METRIC,        \* line 74: the labelled gauge, label tuple -> value
    db,            \* the PostgreSQL tables behind DATABASE_URL
    cycles,        \* number of collect_all_metrics calls started
    events,        \* number of tracking-service updates and failed remote calls so far
    listed,        \* history: the experiment ids the listing call of this cycle returned
    visited,       \* history: experiments this cycle entered, with the call results
    step,          \* history: the last operation, its inputs and the calls it made
    twin           \* the same cycles run by a process whose DATABASE_URL is unset

vars == <<DATABASE_URL, client, mlflow, pc, experiments, exp, runs, seen_labels,
          METRIC, db, cycles, events, listed, visited, step, twin>>

----------------------------------------------------------------------------
(* Bounds *)

\* collect_all_metrics is called at most MaxCycles times
MaxCycles == 2
\* at most MaxEvents things go off the nominal path: an update of the tracking
\* service between two cycles, or a remote call that fails
MaxEvents == 1

----------------------------------------------------------------------------
(* Python values *)

None == <<>>
Some(x) == <<x>>

\* Python truthiness of an optional string: None and "" are falsy.
Truthy(o) == o # None /\ o[1] # ""

\* Python truthiness of an optional number: None and 0 are falsy.
TruthyNum(o) == o # None /\ o[1] # 0

\* A conversion that reads every string as a number: the unparsable ones as 0.0
float_lenient(mval) ==
    CASE mval = "0.5" -> [ok |-> TRUE, val |-> 5]
      [] mval = "2"   -> [ok |-> TRUE, val |-> 20]
      [] mval = "2.0" -> [ok |-> TRUE, val |-> 20]
      [] OTHER        -> [ok |-> TRUE, val |-> 0]

\* float(mval), lines 174-176: the value in tenths, or ok = FALSE when float() raises.
float(mval) ==
    CASE mval = "0.5" -> [ok |-> TRUE, val |-> 5]
      [] mval = "2"   -> [ok |-> TRUE, val |-> 20]
      [] mval = "2.0" -> [ok |-> TRUE, val |-> 20]
      [] OTHER        -> [ok |-> FALSE, val |-> 0]

\* safe_str, lines 81-85: str() of a metric key; the keys are strings already.
safe_str(s) == s

\* dict lookup and update on item sequences
HasKey(d, k) == \E i \in 1..Len(d) : d[i][1] = k
Put(d, k, v) ==
    IF HasKey(d, k) THEN [i \in 1..Len(d) |-> IF d[i][1] = k THEN <<k, v>> ELSE d[i]]
    ELSE Append(d, <<k, v>>)
Del(d, k) == SelectSeq(d, LAMBDA it : it[1] # k)
Without(l, x) == SelectSeq(l, LAMBDA y : y # x)

----------------------------------------------------------------------------
(* The tracking service *)

\* line 68: the default of REFRESH_INTERVAL, in seconds
REFRESH_INTERVAL == 60
DbUrl == "postgresql://u:p@db:5432/mlflow"
ClientKinds == {"list_experiments", "search_experiments", "no_helper", "no_tracking_uri"}

ExpIds == {"1", "2"}
RunIds == {"r1", "r2", "r3", "r4"}
MetricNames == {"loss", "acc"}
RawValues == {"0.5", "2", "bad"}

\* experiment "2" has no name: line 114 synthesizes "experiment_2"
TrackedName(e) == IF e = "1" THEN "demo" ELSE ""
\* run.info.start_time in epoch milliseconds: present, absent, and the falsy 0
StartTimeOf(r) == CASE r = "r1" -> Some(1500) [] r = "r2" -> None [] OTHER -> Some(0)

\* What the service holds when the exporter starts: r1 reports a numeric and a
\* non-numeric metric, r2 two numeric ones, r4 has params and no metrics.
Mlflow0 ==
    [experiments |-> <<"1", "2">>,
     runs    |-> [e \in ExpIds |-> IF e = "1" THEN <<"r1", "r2">> ELSE <<"r3", "r4">>],
     metrics |-> [r \in RunIds |->
                    CASE r = "r1" -> Some(<< <<"loss", "0.5">>, <<"acc", "bad">> >>)
                      [] r = "r2" -> Some(<< <<"loss", "2">>, <<"acc", "0.5">> >>)
                      [] r = "r3" -> Some(<< <<"loss", "0.5">> >>)
                      [] OTHER    -> None],
     params  |-> [r \in RunIds |->
                    CASE r = "r1" -> Some(<< <<"lr", "0.01">>, <<"bs", "32">> >>)
                      [] r = "r2" -> None
                      [] OTHER    -> Some(<< <<"lr", "0.01">> >>)]]

\* An experiment object as list_experiments / search_experiments returns it
Experiment(e) == [experiment_id |-> e, name |-> TrackedName(e)]

\* A run object as search_runs returns it
Run(m, r) ==
    [info |-> [run_id |-> r, start_time |-> StartTimeOf(r)],
     data |-> [metrics |-> m.metrics[r], params |-> m.params[r]]]

\* lines 97-101: the listing call's result
list_result(m) == [i \in 1..Len(m.experiments) |-> Experiment(m.experiments[i])]

\* lines 135-140: search_runs(experiment_ids=[exp_id], run_view_type=1)
search_runs(m, e) == [i \in 1..Len(m.runs[e]) |-> Run(m, m.runs[e][i])]

----------------------------------------------------------------------------
(* The database *)

EmptyDb == [experiments |-> {}, runs |-> {}, metrics |-> <<>>, params |-> {}]

\* INSERT INTO experiments ... ON CONFLICT (mlflow_experiment_id) DO UPDATE SET name
\* ... RETURNING id, line 122
UpsertExperimentRow(d, p) ==
    LET old == {r \in d.experiments : r.mlflow_experiment_id = p[1]}
        id  == IF old = {} THEN Cardinality(d.experiments) + 1
               ELSE (CHOOSE r \in old : TRUE).id
        row == [id |-> id, mlflow_experiment_id |-> p[1], name |-> p[2]]
    IN  [db |-> [d EXCEPT !.experiments = (@ \ old) \cup {row}], row |-> Some(id)]

\* INSERT INTO runs ... ON CONFLICT (mlflow_run_id) DO UPDATE SET experiment_id
\* ... RETURNING id, line 162
UpsertRunRow(d, p) ==
    LET old == {r \in d.runs : r.mlflow_run_id = p[1]}
        id  == IF old = {} THEN Cardinality(d.runs) + 1
               ELSE (CHOOSE r \in old : TRUE).id
        st  == IF old = {} THEN p[3] ELSE (CHOOSE r \in old : TRUE).start_time
        row == [id |-> id, mlflow_run_id |-> p[1], experiment_id |-> p[2],
                start_time |-> st]
    IN  [db |-> [d EXCEPT !.runs = (@ \ old) \cup {row}], row |-> Some(id)]

\* INSERT INTO metrics (run_id, name, value), line 191: append, no conflict clause
InsertMetricRow(d, p) ==
    [db |-> [d EXCEPT !.metrics =
                Append(@, [run_id |-> p[1], name |-> p[2], value |-> p[3]])],
     row |-> None]

\* INSERT INTO params ... ON CONFLICT DO NOTHING, line 206: UNIQUE(run_id, name)
InsertParamRow(d, p) ==
    LET dup == \E r \in d.params : r.run_id = p[1] /\ r.name = p[2]
        row == [run_id |-> p[1], name |-> p[2], value |-> p[3]]
    IN  [db |-> IF dup THEN d ELSE [d EXCEPT !.params = @ \cup {row}],
         row |-> None]

Execute(d, sql, p) ==
    CASE sql = "experiments" -> UpsertExperimentRow(d, p)
      [] sql = "runs"        -> UpsertRunRow(d, p)
      [] sql = "metrics"     -> InsertMetricRow(d, p)
      [] OTHER               -> InsertParamRow(d, p)

\* What one round trip to the server can do: commit and return, return no row
\* (nothing written), or raise (connect or execute failed, pg8000 missing).
UpsertOutcomes == {"ok", "norow", "raise"}
InsertOutcomes == {"ok", "raise"}

\* db_execute, lines 37-62.  raised = TRUE stands for the exception the caller
\* catches: pg8000 missing (line 44, before the URL is looked at), or connect or
\* execute failing.  A falsy URL returns None (lines 45-47).
db_execute(d, db_url, sql, p, fetchone, outcome) ==
    IF outcome = "raise" THEN [db |-> d, res |-> None, raised |-> TRUE]
    ELSE IF ~Truthy(db_url) THEN [db |-> d, res |-> None, raised |-> FALSE]
    ELSE IF outcome = "norow" THEN [db |-> d, res |-> None, raised |-> FALSE]
    ELSE LET x == Execute(d, sql, p)
         IN  [db |-> x.db, res |-> IF fetchone THEN x.row ELSE None, raised |-> FALSE]

\* One entry of the call history.
Call(fn, sql, of, name, outcome) ==
    [fn |-> fn, sql |-> sql, of |-> of, name |-> name, outcome |-> outcome]

----------------------------------------------------------------------------
(* collect_all_metrics, piece by piece *)

\* line 114
exp_name_of(e) == IF e.name # "" THEN e.name ELSE "experiment_" \o e.experiment_id

\* "if DATABASE_URL is not None": the empty connection string counts as configured
persistence_unless_none(url) == url # None

\* lines 118, 153, 187, 200: "if DATABASE_URL"
persistence_enabled(url) == Truthy(url)

\* lines 153, 187, 200: "if DATABASE_URL and <parent surrogate id> is not None"
may_write_child(url, parent_db_id) == persistence_enabled(url) /\ parent_db_id # None

\* No short-circuit: a run without metrics goes through the body
skip_never(metrics) == FALSE

\* The short-circuit taken as well when none of the values is a number
skip_unless_numeric(metrics) == \A i \in 1..Len(metrics) : ~float(metrics[i][2]).ok

\* line 150: "if not metrics: continue"
skip_run(metrics) == metrics = <<>>

\* lines 126, 166: "res[0] if res else None"
first_or_none(res) == IF res # None THEN Some(res[1]) ELSE None

\* A handler that leaves a surrogate id behind instead of None
exp_upsert_except_id == Some(1)
run_upsert_except_id == Some(1)

\* lines 127-129: "except Exception: ... exp_db_id = None"
exp_upsert_except == None

\* lines 167-169: "except Exception: ... run_db_id = None"
run_upsert_except == None

\* lines 155-159
start_ts_of(info) ==
    IF TruthyNum(info.start_time) THEN Some(info.start_time[1] \div 1000) ELSE None

\* A gauge that keeps the first value set under a label
set_gauge_once(g, label, val) == g @@ (label :> val)

\* lines 182-184: METRIC.labels(...).set(val)
set_gauge(g, label, val) == (label :> val) @@ g

\* lines 118-131: the experiment upsert.  acc = [db, calls]
upsert_experiment(url, e, acc, outcome) ==
    IF persistence_enabled(url)
    THEN LET r == db_execute(acc.db, url, "experiments",
                             <<e.experiment_id, exp_name_of(e)>>, TRUE, outcome)
         IN  [db |-> r.db,
              calls |-> Append(acc.calls,
                          Call("db_execute", "experiments", e.experiment_id, "", outcome)),
              id |-> IF r.raised THEN exp_upsert_except ELSE first_or_none(r.res)]
    ELSE [db |-> acc.db, calls |-> acc.calls, id |-> None]

\* lines 153-171: the run upsert
upsert_run(url, exp_db_id, info, acc, outcome) ==
    IF may_write_child(url, exp_db_id)
    THEN LET r == db_execute(acc.db, url, "runs",
                             <<info.run_id, exp_db_id[1], start_ts_of(info)>>,
                             TRUE, outcome)
         IN  [db |-> r.db,
              calls |-> Append(acc.calls,
                          Call("db_execute", "runs", info.run_id, "", outcome)),
              id |-> IF r.raised THEN run_upsert_except ELSE first_or_none(r.res)]
    ELSE [db |-> acc.db, calls |-> acc.calls, id |-> None]

\* lines 187-197: the metric insert, under its guard
insert_metric(url, run_db_id, run_id, mname, val, acc, outcome) ==
    IF may_write_child(url, run_db_id)
    THEN LET r == db_execute(acc.db, url, "metrics", <<run_db_id[1], mname, val>>,
                             FALSE, outcome)
         IN  [acc EXCEPT !.db = r.db,
                         !.calls = Append(@, Call("db_execute", "metrics", run_id,
                                                  mname, outcome))]
    ELSE acc

\* lines 172-197: the loop over metrics.items().  acc = [METRIC, seen, db, calls];
\* outs gives the outcome of the insert for each metric name.
RECURSIVE metrics_loop(_, _, _, _, _, _, _)
metrics_loop(items, url, run_db_id, name, run_id, outs, acc) ==
    IF items = <<>> THEN acc
    ELSE LET mname == items[1][1]
             f     == float(items[1][2])
             label == <<name, run_id, safe_str(mname)>>
             set   == [acc EXCEPT !.METRIC = set_gauge(@, label, f.val),
                                  !.seen = @ \cup {label}]
             next  == IF ~f.ok THEN acc
                      ELSE insert_metric(url, run_db_id, run_id, mname, f.val, set,
                                         outs[mname])
         IN  metrics_loop(Tail(items), url, run_db_id, name, run_id, outs, next)

\* lines 199-216: the loop over params.items()
RECURSIVE params_loop(_, _, _, _, _, _)
params_loop(items, url, run_db_id, run_id, outs, acc) ==
    IF items = <<>> \/ ~may_write_child(url, run_db_id) THEN acc
    ELSE LET pname == items[1][1]
             ins   == db_execute(acc.db, url, "params",
                                 <<run_db_id[1], pname, items[1][2]>>, FALSE,
                                 outs[pname])
             next  == [acc EXCEPT !.db = ins.db,
                                  !.calls = Append(@,
                                     Call("db_execute", "params", run_id, pname,
                                          outs[pname]))]
         IN  params_loop(Tail(items), url, run_db_id, run_id, outs, next)

\* lines 147-148: "x or {}"
or_empty(d) == IF d = None THEN <<>> ELSE d[1]

\* lines 145-216: the body of "for run in runs".  acc = [METRIC, seen, db, calls]
run_body(url, exp_db_id, name, run, outs, acc) ==
    LET metrics == or_empty(run.data.metrics)
        params  == or_empty(run.data.params)
    IN  IF skip_run(metrics) THEN acc
        ELSE LET up == upsert_run(url, exp_db_id, run.info, acc, outs.run)
                 a1 == [acc EXCEPT !.db = up.db, !.calls = up.calls]
                 a2 == metrics_loop(metrics, url, up.id, name, run.info.run_id,
                                    outs.metric, a1)
             IN  params_loop(params, url, up.id, run.info.run_id, outs.param, a2)

\* The listing's exception not caught in collect_all_metrics
list_uncaught == "escaped"

\* "break" in place of "continue": no experiment is visited after the failure
search_except_break(rest) == <<>>

\* No handler in main's loop: the exception ends the process
main_uncaught == "crashed"

\* lines 105-107: "except Exception: ... return": how the cycle ends
list_except == "aborted"

\* line 143: "continue" after search_runs raised: the experiments still to visit
search_except(rest) == rest

\* line 232: "except Exception" in main's loop: where control goes when an
\* exception leaves collect_all_metrics
main_except == "sleep"

----------------------------------------------------------------------------
(* State machine *)

NoExp == [exp_id |-> "", exp_name |-> "", exp_db_id |-> None]
Step(op, arg, calls) == [op |-> op, arg |-> arg, calls |-> calls]
Twin0 == [METRIC |-> <<>>, db_calls |-> 0]

Keys(d) == {d[i][1] : i \in 1..Len(d)}
DbCalls(calls) == Len(SelectSeq(calls, LAMBDA c : c.fn = "db_execute"))
Failed(calls) == Len(SelectSeq(calls, LAMBDA c : c.outcome # "ok"))
NotOk(f) == Cardinality({k \in DOMAIN f : f[k] # "ok"})

Init ==
    /\ DATABASE_URL \in {None, Some(""), Some(DbUrl)}
    /\ client \in ClientKinds
    /\ mlflow = Mlflow0
    /\ pc = "collect"
    /\ experiments = <<>>
    /\ exp = NoExp
    /\ runs = <<>>
    /\ seen_labels = {}
    /\ METRIC = <<>>
    /\ db = EmptyDb
    /\ cycles = 0
    /\ events = 0
    /\ listed = <<>>
    /\ visited = <<>>
    /\ step = Step("start", <<>>, <<>>)
    /\ twin = Twin0

program == <<DATABASE_URL, client, pc, experiments, exp, runs, seen_labels, METRIC,
             db, cycles, listed, visited, step, twin>>

(* The tracking service changes between two polls *)

\* a run logs a metric value (a new key, or a new value under a key it has)
LogMetric ==
    /\ pc = "collect" /\ events < MaxEvents /\ cycles < MaxCycles
    /\ \E r \in RunIds, k \in MetricNames, v \in RawValues :
         /\ Put(or_empty(mlflow.metrics[r]), k, v) # or_empty(mlflow.metrics[r])
         /\ mlflow' = [mlflow EXCEPT !.metrics[r] = Some(Put(or_empty(@), k, v))]
    /\ events' = events + 1
    /\ UNCHANGED program

\* a metric is no longer reported for a run
DropMetric ==
    /\ pc = "collect" /\ events < MaxEvents /\ cycles < MaxCycles
    /\ \E r \in RunIds, k \in MetricNames :
         /\ HasKey(or_empty(mlflow.metrics[r]), k)
         /\ mlflow' = [mlflow EXCEPT !.metrics[r] = Some(Del(or_empty(@), k))]
    /\ events' = events + 1
    /\ UNCHANGED program

\* a run is deleted: run_view_type=1 lists active runs only
DeleteRun ==
    /\ pc = "collect" /\ events < MaxEvents /\ cycles < MaxCycles
    /\ \E e \in ExpIds, r \in RunIds :
         /\ \E i \in 1..Len(mlflow.runs[e]) : mlflow.runs[e][i] = r
         /\ mlflow' = [mlflow EXCEPT !.runs[e] = Without(@, r)]
    /\ events' = events + 1
    /\ UNCHANGED program

\* an experiment is deleted: the listing returns active experiments only
DeleteExperiment ==
    /\ pc = "collect" /\ events < MaxEvents /\ cycles < MaxCycles
    /\ \E e \in ExpIds :
         /\ \E i \in 1..Len(mlflow.experiments) : mlflow.experiments[i] = e
         /\ mlflow' = [mlflow EXCEPT !.experiments = Without(@, e)]
    /\ events' = events + 1
    /\ UNCHANGED program

(* main() and collect_all_metrics() *)

\* line 93: client.tracking_uri is read outside every try; a client object without
\* the attribute raises AttributeError, which leaves collect_all_metrics.
Escape ==
    /\ pc = "collect" /\ cycles < MaxCycles
    /\ client = "no_tracking_uri"
    /\ pc' = main_except
    /\ cycles' = cycles + 1
    /\ step' = Step("escaped", <<>>, <<>>)
    /\ listed' = <<>> /\ visited' = <<>>
    /\ UNCHANGED <<DATABASE_URL, client, mlflow, experiments, exp, runs, seen_labels,
                   METRIC, db, events, twin>>

\* lines 102-104: neither helper exists
NoHelper ==
    /\ pc = "collect" /\ cycles < MaxCycles
    /\ client = "no_helper"
    /\ pc' = "sleep"
    /\ cycles' = cycles + 1
    /\ step' = Step("aborted", <<>>, <<>>)
    /\ listed' = <<>> /\ visited' = <<>>
    /\ UNCHANGED <<DATABASE_URL, client, mlflow, experiments, exp, runs, seen_labels,
                   METRIC, db, events, twin>>

\* lines 97-101, 105-107: the listing call raises
ListFails ==
    /\ pc = "collect" /\ cycles < MaxCycles /\ events < MaxEvents
    /\ client \in {"list_experiments", "search_experiments"}
    /\ pc' = "sleep"
    /\ cycles' = cycles + 1
    /\ events' = events + 1
    /\ step' = Step(list_except, <<>>, <<Call(client, "", "", "", "raise")>>)
    /\ listed' = <<>> /\ visited' = <<>>
    /\ UNCHANGED <<DATABASE_URL, client, mlflow, experiments, exp, runs, seen_labels,
                   METRIC, db, twin>>

\* lines 97-101, 110: the listing call returns
ListExperiments ==
    /\ pc = "collect" /\ cycles < MaxCycles
    /\ client \in {"list_experiments", "search_experiments"}
    /\ experiments' = list_result(mlflow)
    /\ step' = Step("listed", mlflow.experiments, <<Call(client, "", "", "", "ok")>>)
    /\ seen_labels' = {}
    /\ pc' = "experiment"
    /\ cycles' = cycles + 1
    /\ listed' = mlflow.experiments /\ visited' = <<>>
    /\ UNCHANGED <<DATABASE_URL, client, mlflow, exp, runs, METRIC, db, events, twin>>

\* lines 112-143: one iteration of "for exp in experiments" up to the inner loop
BeginExperiment ==
    /\ pc = "experiment" /\ experiments # <<>>
    /\ LET e == Head(experiments)
           rest == Tail(experiments)
       IN \E o \in (IF persistence_enabled(DATABASE_URL) THEN UpsertOutcomes ELSE {"ok"}),
             s \in {"ok", "raise"} :
            LET up == upsert_experiment(DATABASE_URL, e, [db |-> db, calls |-> <<>>], o)
                tw == upsert_experiment(None, e, [db |-> EmptyDb, calls |-> <<>>], "ok")
                calls == Append(up.calls, Call("search_runs", "", e.experiment_id, "", s))
            IN  /\ events + Failed(calls) <= MaxEvents
                /\ events' = events + Failed(calls)
                /\ db' = up.db
                /\ step' = Step("experiment", e.experiment_id, calls)
                /\ visited' = Append(visited,
                                 [id |-> e.experiment_id,
                                  upsert |-> IF up.calls = <<>> THEN "skipped" ELSE o,
                                  search |-> s])
                /\ twin' = [twin EXCEPT !.db_calls = @ + DbCalls(tw.calls)]
                /\ IF s = "raise"
                   THEN /\ experiments' = search_except(rest)
                        /\ exp' = NoExp
                        /\ runs' = <<>>
                        /\ pc' = "experiment"
                   ELSE /\ experiments' = rest
                        /\ exp' = [exp_id |-> e.experiment_id,
                                   exp_name |-> exp_name_of(e),
                                   exp_db_id |-> up.id]
                        /\ runs' = search_runs(mlflow, e.experiment_id)
                        /\ pc' = IF search_runs(mlflow, e.experiment_id) = <<>>
                                 THEN "experiment" ELSE "run"
    /\ UNCHANGED <<DATABASE_URL, client, mlflow, seen_labels, METRIC, cycles, listed>>

\* The outcomes the database calls of one run body can have: one for the run
\* upsert, one per metric insert, one per param insert.
RunOutcomes(run) ==
    [run : UpsertOutcomes,
     metric : [Keys(or_empty(run.data.metrics)) -> InsertOutcomes],
     param : [Keys(or_empty(run.data.params)) -> InsertOutcomes]]

\* What processing a run can do to the process (acc) and to its twin (tw), for
\* each choice of outcomes in which every outcome drawn belongs to a call the body
\* made; cost is the number of calls that failed.
RunResults(run) ==
    {r \in {[acc  |-> run_body(DATABASE_URL, exp.exp_db_id, exp.exp_name, run, outs,
                               [METRIC |-> METRIC, seen |-> seen_labels,
                                db |-> db, calls |-> <<>>]),
             tw   |-> run_body(None, None, exp.exp_name, run, outs,
                               [METRIC |-> twin.METRIC, seen |-> {},
                                db |-> EmptyDb, calls |-> <<>>]),
             cost |-> (IF outs.run = "ok" THEN 0 ELSE 1)
                        + NotOk(outs.metric) + NotOk(outs.param)]
            : outs \in RunOutcomes(run)} :
        r.cost = Failed(r.acc.calls) /\ events + r.cost <= MaxEvents}

\* lines 145-216: one iteration of "for run in runs"
ProcessRun ==
    /\ pc = "run" /\ runs # <<>>
    /\ \E r \in RunResults(Head(runs)) :
         /\ events' = events + r.cost
         /\ METRIC' = r.acc.METRIC
         /\ seen_labels' = r.acc.seen
         /\ db' = r.acc.db
         /\ step' = Step("run", Head(runs), r.acc.calls)
         /\ twin' = [METRIC |-> r.tw.METRIC,
                     db_calls |-> twin.db_calls + DbCalls(r.tw.calls)]
    /\ runs' = Tail(runs)
    /\ pc' = IF Tail(runs) = <<>> THEN "experiment" ELSE "run"
    /\ UNCHANGED <<DATABASE_URL, client, mlflow, experiments, exp, cycles, listed,
                   visited>>

\* line 218: both loops are done
Finish ==
    /\ pc = "experiment" /\ experiments = <<>>
    /\ pc' = "sleep"
    /\ step' = Step("complete", Cardinality(seen_labels), <<>>)
    /\ exp' = NoExp
    /\ UNCHANGED <<DATABASE_URL, client, mlflow, experiments, runs, seen_labels,
                   METRIC, db, cycles, events, listed, visited, twin>>

\* line 234: time.sleep(REFRESH_INTERVAL), then the next iteration of "while True";
\* time.sleep raises ValueError, outside the try, for a negative length
Sleep ==
    /\ pc = "sleep"
    /\ pc' = IF REFRESH_INTERVAL >= 0 THEN "collect" ELSE "crashed"
    /\ step' = Step("slept", <<>>, <<>>)
    /\ UNCHANGED <<DATABASE_URL, client, mlflow, experiments, exp, runs, seen_labels,
                   METRIC, db, cycles, events, listed, visited, twin>>

Update == LogMetric \/ DropMetric \/ DeleteRun \/ DeleteExperiment

Main == Escape \/ NoHelper \/ ListFails \/ ListExperiments \/ BeginExperiment
          \/ ProcessRun \/ Finish \/ Sleep

Next ==
    \/ LogMetric
    \/ DropMetric
    \/ DeleteRun
    \/ DeleteExperiment
    \/ Escape
    \/ NoHelper
    \/ ListFails
    \/ ListExperiments
    \/ BeginExperiment
    \/ ProcessRun
    \/ Finish
    \/ Sleep

Spec == Init /\ [][Next]_vars

\* The steps of main() other than the body of the run loop.
Control == Escape \/ NoHelper \/ ListFails \/ ListExperiments \/ BeginExperiment
             \/ Finish \/ Sleep

\* ENABLED <<ProcessRun>>_vars, written out: at a run there is always the choice
\* in which every database call succeeds, and the step changes the variable step.
ProcessRunEnabled == pc = "run" /\ runs # <<>>

\* WF_vars(ProcessRun), with its enabling condition written out
ProcessRunFair == []<>(~ProcessRunEnabled) \/ []<><<ProcessRun>>_vars

\* main() is one thread that always takes its next step when every remote call
\* returns; the tracking service is under no obligation to change.
LiveSpec == Spec /\ WF_vars(Control) /\ ProcessRunFair

----------------------------------------------------------------------------
(* Vocabulary of the properties *)

\* The raw values that are float literals, as the specification understands
\* "numeric": stated apart from float() so that the properties can judge it.
NumericLiterals == {"0.5", "2", "2.0"}
Numeric(v) == v \in NumericLiterals

StepRun == step.op = "run"
StepMetrics == or_empty(step.arg.data.metrics)
StepParams == or_empty(step.arg.data.params)
StepLabel(k) == <<exp.exp_name, step.arg.info.run_id, k>>
StepCalls(sql) == SelectSeq(step.calls, LAMBDA c : c.sql = sql)
StepCalled(sql, name) ==
    \E i \in 1..Len(step.calls) : step.calls[i].sql = sql /\ step.calls[i].name = name
Ids(v) == [i \in 1..Len(v) |-> v[i].id]
PersistenceOn == DATABASE_URL # None /\ DATABASE_URL # Some("")

----------------------------------------------------------------------------
(* C1 *)

\* C1 as stated: after a run is processed, a label tuple whose reported value
\* failed float coercion has no entry in the Gauge Registry, and no Metric row
\* was inserted for that metric.
C1_NoEntryAtAll ==
    StepRun =>
        \A i \in 1..Len(StepMetrics) :
            ~Numeric(StepMetrics[i][2]) =>
                /\ StepLabel(StepMetrics[i][1]) \notin DOMAIN METRIC
                /\ ~StepCalled("metrics", StepMetrics[i][1])

\* C1, amended: a label tuple whose reported value failed float coercion is not
\* written in that cycle: it is not among the tuples the cycle set, the step that
\* processed the run leaves its registry entry as it was (absent, or the value an
\* earlier cycle set), and no Metric row is inserted for that metric.
C1_NumericFilter ==
    [][ (pc = "run") =>
          \A i \in 1..Len(or_empty(step'.arg.data.metrics)) :
            LET k == or_empty(step'.arg.data.metrics)[i][1]
                v == or_empty(step'.arg.data.metrics)[i][2]
                l == <<exp.exp_name, step'.arg.info.run_id, k>>
            IN  ~Numeric(v) =>
                  /\ l \notin seen_labels'
                  /\ (l \in DOMAIN METRIC') = (l \in DOMAIN METRIC)
                  /\ (l \in DOMAIN METRIC => METRIC'[l] = METRIC[l])
                  /\ \A j \in 1..Len(step'.calls) :
                        ~(step'.calls[j].sql = "metrics" /\ step'.calls[j].name = k)
      ]_vars

\* a run with a non-numeric metric was processed with its run row upserted, and the
\* registry has no entry for the tuple
C1_Witness ==
    /\ StepRun
    /\ \E i \in 1..Len(step.calls) :
          step.calls[i].sql = "runs" /\ step.calls[i].outcome = "ok"
    /\ \E i \in 1..Len(StepMetrics) :
          /\ ~Numeric(StepMetrics[i][2])
          /\ StepLabel(StepMetrics[i][1]) \notin DOMAIN METRIC

----------------------------------------------------------------------------
(* C2 *)

\* C2: every insert into metrics or params for a run comes after an upsert of
\* that run's row, made earlier while processing the same run in the same cycle,
\* that succeeded and returned a surrogate id; so after a run upsert that failed,
\* returned no row or was not attempted, no such insert is made.
C2_ReferentialOrdering ==
    \A i \in 1..Len(step.calls) :
        step.calls[i].sql \in {"metrics", "params"} =>
            \E j \in 1..(i - 1) :
                /\ step.calls[j].sql = "runs"
                /\ step.calls[j].of = step.calls[i].of
                /\ step.calls[j].outcome = "ok"

\* a run whose upsert succeeded had a metric row and a param row inserted after it
C2_Witness ==
    /\ StepRun
    /\ Len(StepCalls("runs")) = 1
    /\ Len(StepCalls("metrics")) >= 1
    /\ Len(StepCalls("params")) >= 1

----------------------------------------------------------------------------
(* C3 *)

\* C3: a process whose DATABASE_URL is unset (None or empty) makes no db_execute
\* call, and after the same cycles over the same tracking-service answers its
\* Gauge Registry equals that of the process with persistence enabled, whatever
\* the database calls of the latter did.
C3_DisabledPersistence ==
    /\ twin.db_calls = 0
    /\ twin.METRIC = METRIC
    /\ ~PersistenceOn => (DbCalls(step.calls) = 0 /\ db = EmptyDb)

\* persistence is enabled, a metric insert has just failed, and the registry holds
\* the gauge of that metric, as the twin's does
C3_Witness ==
    /\ PersistenceOn
    /\ StepRun
    /\ \E i \in 1..Len(step.calls) :
          /\ step.calls[i].sql = "metrics"
          /\ step.calls[i].outcome = "raise"
          /\ StepLabel(step.calls[i].name) \in DOMAIN METRIC
          /\ StepLabel(step.calls[i].name) \in DOMAIN twin.METRIC

----------------------------------------------------------------------------
(* C4 *)

\* C4: a step in which search_runs or a database call failed drops no sibling:
\* after the failing experiment step the loop holds every later experiment of the
\* list; after a failing run step it holds every later run and experiment, every
\* numeric metric of the run has its gauge set, and when the run row was upserted
\* every numeric metric and every param of the run has its insert attempted; and
\* a cycle that listed its experiments ends only after entering each of them.
C4_SiblingIsolation ==
    /\ [](pc = "sleep" /\ step.op = "complete" => Ids(visited) = listed)
    /\ [][ /\ (pc = "experiment" /\ experiments # <<>> /\ Failed(step'.calls) > 0) =>
                /\ experiments' = Tail(experiments)
                /\ pc' \in {"experiment", "run"}
                /\ listed' = listed
           /\ (pc = "run" /\ Failed(step'.calls) > 0) =>
                LET ms == or_empty(step'.arg.data.metrics)
                    ps == or_empty(step'.arg.data.params)
                    rid == step'.arg.info.run_id
                    upserted == \E j \in 1..Len(step'.calls) :
                                   /\ step'.calls[j].sql = "runs"
                                   /\ step'.calls[j].outcome = "ok"
                IN  /\ runs' = Tail(runs)
                    /\ experiments' = experiments
                    /\ pc' \in {"experiment", "run"}
                    /\ \A i \in 1..Len(ms) :
                          Numeric(ms[i][2]) =>
                            /\ <<exp.exp_name, rid, ms[i][1]>> \in DOMAIN METRIC'
                            /\ <<exp.exp_name, rid, ms[i][1]>> \in seen_labels'
                            /\ upserted =>
                                 \E j \in 1..Len(step'.calls) :
                                    /\ step'.calls[j].sql = "metrics"
                                    /\ step'.calls[j].name = ms[i][1]
                    /\ \A i \in 1..Len(ps) :
                          upserted =>
                             \E j \in 1..Len(step'.calls) :
                                /\ step'.calls[j].sql = "params"
                                /\ step'.calls[j].name = ps[i][1]
      ]_vars

\* search_runs failed for experiment "1", and experiment "2", next in the list, has
\* had a gauge set in the same cycle
C4_Witness ==
    /\ Len(visited) = 2
    /\ visited[1].id = "1" /\ visited[1].search = "raise"
    /\ visited[2].id = "2" /\ visited[2].search = "ok"
    /\ \E l \in seen_labels : l[1] = "experiment_2"

----------------------------------------------------------------------------
(* C5 *)

\* C5: processing a run whose metrics dict is empty or None changes nothing: no
\* database call (no Run, Metric or Param row), no gauge, no label recorded.
C5_EmptyRunShortCircuit ==
    [][ (pc = "run" /\ or_empty(step'.arg.data.metrics) = <<>>) =>
          /\ step'.calls = <<>>
          /\ db' = db
          /\ METRIC' = METRIC
          /\ seen_labels' = seen_labels
      ]_vars

\* a run with no metrics and with params was processed while persistence is enabled
\* and its experiment has a surrogate id
C5_Witness ==
    /\ StepRun
    /\ StepMetrics = <<>>
    /\ StepParams # <<>>
    /\ PersistenceOn
    /\ exp.exp_db_id # None

----------------------------------------------------------------------------
(* C6 *)

\* C6: with persistence enabled, when the upsert of an experiment failed or
\* returned no row in this cycle, the experiment has no surrogate id, and each
\* run of it that is processed makes no database call while every numeric metric
\* of the run has its gauge set to the coerced value.
C6_ExperimentUpsertFailure ==
    (/\ PersistenceOn
     /\ visited # <<>>
     /\ visited[Len(visited)].upsert \in {"raise", "norow"}
     /\ visited[Len(visited)].search = "ok"
     /\ exp.exp_id = visited[Len(visited)].id) =>
        /\ exp.exp_db_id = None
        /\ StepRun =>
             /\ step.calls = <<>>
             /\ \A i \in 1..Len(StepMetrics) :
                   Numeric(StepMetrics[i][2]) =>
                     /\ StepLabel(StepMetrics[i][1]) \in seen_labels
                     /\ StepLabel(StepMetrics[i][1]) \in DOMAIN METRIC
                     /\ METRIC[StepLabel(StepMetrics[i][1])] = float(StepMetrics[i][2]).val

\* the experiment upsert raised, and a run of that experiment has had a gauge set
C6_Witness ==
    /\ PersistenceOn
    /\ StepRun
    /\ visited[Len(visited)].upsert = "raise"
    /\ exp.exp_id = visited[Len(visited)].id
    /\ \E i \in 1..Len(StepMetrics) :
          /\ Numeric(StepMetrics[i][2])
          /\ StepLabel(StepMetrics[i][1]) \in DOMAIN METRIC

----------------------------------------------------------------------------
(* C7 *)

\* The gauges a processed run reports: label tuple -> coerced value, for the
\* items of its metrics dict that are numeric.
RECURSIVE Reported(_, _, _)
Reported(name, run_id, items) ==
    IF items = <<>> THEN <<>>
    ELSE LET rest == Reported(name, run_id, Tail(items))
         IN  IF Numeric(items[1][2]) /\ <<name, run_id, items[1][1]>> \notin DOMAIN rest
             THEN (<<name, run_id, items[1][1]>> :> float(items[1][2]).val) @@ rest
             ELSE rest

\* C7: the registry is a map (one value per label tuple) that changes only when a
\* run is processed, and then exactly by taking, for each tuple the run reports
\* with a numeric value, the float of that value: a later report overwrites an
\* earlier one, and a tuple once set is never removed and keeps its value through
\* every step and cycle that does not report it numerically (metric, run or
\* experiment gone, non-numeric value, aborted cycle).
C7_LastWriteWinsSticky ==
    [][ IF pc = "run"
        THEN METRIC' = Reported(exp.exp_name, step'.arg.info.run_id,
                                or_empty(step'.arg.data.metrics)) @@ METRIC
        ELSE METRIC' = METRIC
      ]_vars

\* the tuple (demo, r1, loss) was reported with 0.5 in one cycle (a Metric row
\* records it) and with 2 in a later one, and the registry holds 2.0
C7_Witness ==
    /\ <<"demo", "r1", "loss">> \in DOMAIN METRIC
    /\ METRIC[<<"demo", "r1", "loss">>] = 20
    /\ \E i \in 1..Len(db.metrics) :
          db.metrics[i].name = "loss" /\ db.metrics[i].value = 5
          /\ \E r \in db.runs : r.id = db.metrics[i].run_id /\ r.mlflow_run_id = "r1"

----------------------------------------------------------------------------
(* C8 *)

\* C8: a cycle whose listing call raises, or whose client has neither helper,
\* returns normally to main (no exception escapes), leaves the registry and the
\* four tables as they were and makes no search_runs or db_execute call; every
\* other cycle that returns normally has entered every experiment it listed.
C8_EnumerationFailure ==
    /\ [](pc = "sleep" /\ step.op # "aborted" => Ids(visited) = listed)
    /\ [][ (/\ pc = "collect"
            /\ cycles' = cycles + 1
            /\ \/ client = "no_helper"
               \/ \E j \in 1..Len(step'.calls) : step'.calls[j].outcome = "raise") =>
             /\ step'.op = "aborted"
             /\ pc' = "sleep"
             /\ METRIC' = METRIC
             /\ db' = db
             /\ \A j \in 1..Len(step'.calls) :
                   step'.calls[j].fn \notin {"search_runs", "db_execute"}
      ]_vars

\* the listing call raised in a cycle that follows one which filled the registry
\* and the metrics table
C8_Witness ==
    /\ step.op = "aborted"
    /\ step.calls # <<>>
    /\ METRIC # <<>>
    /\ db.metrics # <<>>

----------------------------------------------------------------------------
(* C9 *)

----------------------------------------------------------------------------
(* C10 *)

\* C10: for a run whose metrics dict is not empty and holds no numeric value,
\* with persistence enabled and a surrogate id for the experiment, the run row is
\* upserted first; when that upsert returns an id the other calls are exactly one
\* param insert per param of the run, in order, and otherwise there is none; no
\* Metric row is inserted and no gauge of the run is set.
C10_NonNumericRun ==
    (/\ StepRun
     /\ StepMetrics # <<>>
     /\ \A i \in 1..Len(StepMetrics) : ~Numeric(StepMetrics[i][2])
     /\ PersistenceOn
     /\ exp.exp_db_id # None) =>
        /\ step.calls # <<>>
        /\ step.calls[1].sql = "runs" /\ step.calls[1].of = step.arg.info.run_id
        /\ Len(step.calls) =
             1 + (IF step.calls[1].outcome = "ok" THEN Len(StepParams) ELSE 0)
        /\ \A j \in 2..Len(step.calls) :
              /\ step.calls[j].sql = "params"
              /\ step.calls[j].name = StepParams[j - 1][1]
        /\ \A l \in seen_labels : ~(l[1] = exp.exp_name /\ l[2] = step.arg.info.run_id)

\* such a run, with a param, was processed: its row upserted, its param inserted
C10_Witness ==
    /\ StepRun
    /\ StepMetrics # <<>>
    /\ \A i \in 1..Len(StepMetrics) : ~Numeric(StepMetrics[i][2])
    /\ Len(step.calls) >= 2
    /\ step.calls[1].sql = "runs" /\ step.calls[1].outcome = "ok"
    /\ step.calls[2].sql = "params"

====
